---------------------------- MODULE Spec2Model ----------------------------
(***************************************************************************)
(* Student Career Assistant: the session store (StudentMemoryBank), the    *)
(* four specialist responders and the router (CoordinatorAgent) of         *)
(* agent.py, as one state machine.  Text is kept as TLA+ strings and       *)
(* handled character by character, as Python's str.lower, str.replace and  *)
(* the `in` substring test handle it.                                      *)
(***************************************************************************)
EXTENDS Integers, Sequences, FiniteSets, TLC

VARIABLES
    students,   \* StudentMemoryBank.students: dict student_id -> session
    now,        \* the reading datetime.now() gives
    pc,         \* position of the single thread of control
    frame,      \* locals of the call in progress (of the last call once returned)
    ret,        \* value returned by the last finished call
    calls       \* collaborator calls made by the call in progress, in order

vars == <<students, now, pc, frame, ret, calls>>

---------------------------------------------------------------------------
(* Bounds of the model *)

\* most activity records the store is driven to hold, over all sessions
MaxLog == 2
\* largest `weeks` argument tried on create_plan
MaxWeeks == 5
\* longest focus_areas list tried on create_plan
MaxFocus == 3

---------------------------------------------------------------------------
(* Python values *)

\* Python's None: a value that is none of the texts the program handles
None == "<None>"

\* Python's truth test of an optional text: None and "" are false
Truthy(x) == x # None /\ x # ""

\* an empty dict, {}
EmptyDict == <<>>

\* an empty list, []
EmptyList == <<>>

Min(a, b) == IF a < b THEN a ELSE b

---------------------------------------------------------------------------
(* Text: str.lower, the `in` substring test, str.replace *)

UpperCase == "ABCDEFGHIJKLMNOPQRSTUVWXYZ"
LowerCase == "abcdefghijklmnopqrstuvwxyz"

\* the letters str.lower() changes, each with its lower-case letter
ToLower ==
    [c \in {SubSeq(UpperCase, i, i) : i \in 1..Len(UpperCase)} |->
        LET i == CHOOSE j \in 1..Len(UpperCase) : SubSeq(UpperCase, j, j) = c
        IN  SubSeq(LowerCase, i, i)]

\* one character of str.lower()
LowerChar(c) == IF c \in DOMAIN ToLower THEN ToLower[c] ELSE c

RECURSIVE LowerFrom(_, _)
LowerFrom(s, i) ==
    IF i > Len(s) THEN ""
    ELSE LowerChar(SubSeq(s, i, i)) \o LowerFrom(s, i + 1)

\* s.lower()
Lower(s) == LowerFrom(s, 1)

\* word in s   (substring test)
Contains(s, word) ==
    \E i \in 1..(Len(s) - Len(word) + 1) : SubSeq(s, i, i + Len(word) - 1) = word

\* a faulty test: all(word in s for word in words)
AllIn(s, words) == \A k \in 1..Len(words) : Contains(s, words[k])

\* any(word in s for word in words)
AnyIn(s, words) == \E k \in 1..Len(words) : Contains(s, words[k])

RECURSIVE ReplaceFrom(_, _, _, _)
ReplaceFrom(s, i, old, new) ==
    IF i > Len(s) THEN ""
    ELSE (IF SubSeq(s, i, i) = old THEN new ELSE SubSeq(s, i, i))
         \o ReplaceFrom(s, i + 1, old, new)

\* s.replace(old, new) for a one-character old
Replace(s, old, new) == ReplaceFrom(s, 1, old, new)

---------------------------------------------------------------------------
(* StudentMemoryBank *)

\* a faulty add_student: a session that exists keeps its progress
add_student_keep_log(store, student_id, profile, t) ==
    [id \in DOMAIN store \cup {student_id} |->
        IF id = student_id
        THEN [profile     |-> profile,
              progress    |-> IF id \in DOMAIN store THEN store[id].progress
                              ELSE <<>>,
              preferences |-> <<>>,
              created_at  |-> t]
        ELSE store[id]]

\* self.students[student_id] = {...}
add_student(store, student_id, profile, t) ==
    [id \in DOMAIN store \cup {student_id} |->
        IF id = student_id
        THEN [profile     |-> profile,
              progress    |-> EmptyList,
              preferences |-> EmptyDict,
              created_at  |-> t]
        ELSE store[id]]

\* the record update_progress appends
ActivityRecord(activity, details, t) ==
    [activity |-> activity, details |-> details, timestamp |-> t]

\* a faulty update_progress: the record is appended twice
update_progress_twice(store, student_id, activity, details, t) ==
    IF student_id \in DOMAIN store
    THEN [store EXCEPT ![student_id].progress =
              Append(Append(@, ActivityRecord(activity, details, t)),
                     ActivityRecord(activity, details, t))]
    ELSE store

\* a faulty update_progress: the record replaces the progress
update_progress_overwrite(store, student_id, activity, details, t) ==
    IF student_id \in DOMAIN store
    THEN [store EXCEPT ![student_id].progress =
              <<ActivityRecord(activity, details, t)>>]
    ELSE store

\* a faulty update_progress: a student without a session gets one
update_progress_create(store, student_id, activity, details, t) ==
    [id \in DOMAIN store \cup {student_id} |->
        IF id = student_id
        THEN IF id \in DOMAIN store
             THEN [store[id] EXCEPT !.progress =
                       Append(@, ActivityRecord(activity, details, t))]
             ELSE [profile     |-> <<>>,
                   progress    |-> <<ActivityRecord(activity, details, t)>>,
                   preferences |-> <<>>,
                   created_at  |-> t]
        ELSE store[id]]

\* a faulty update_progress: the record goes to every session
update_progress_all(store, student_id, activity, details, t) ==
    IF student_id \in DOMAIN store
    THEN [id \in DOMAIN store |->
              [store[id] EXCEPT !.progress =
                   Append(@, ActivityRecord(activity, details, t))]]
    ELSE store

\* append to the student's progress when the student exists, else nothing
update_progress(store, student_id, activity, details, t) ==
    IF student_id \in DOMAIN store
    THEN [store EXCEPT ![student_id].progress =
              Append(@, ActivityRecord(activity, details, t))]
    ELSE store

\* self.students.get(student_id, {})
get_student_context(store, student_id) ==
    IF student_id \in DOMAIN store THEN store[student_id] ELSE EmptyDict

---------------------------------------------------------------------------
(* DSAProblemRecommender *)

\* self.problems
Problems ==
    [easy   |-> << [name |-> "Two Sum", topic |-> "Array", difficulty |-> "Easy"],
                   [name |-> "Valid Parentheses", topic |-> "Stack", difficulty |-> "Easy"],
                   [name |-> "Merge Two Sorted Lists", topic |-> "Linked List", difficulty |-> "Easy"] >>,
     medium |-> << [name |-> "LRU Cache", topic |-> "Design", difficulty |-> "Medium"],
                   [name |-> "Binary Tree Level Order", topic |-> "Tree", difficulty |-> "Medium"],
                   [name |-> "Longest Substring", topic |-> "String", difficulty |-> "Medium"] >>,
     hard   |-> << [name |-> "Median of Two Sorted Arrays", topic |-> "Binary Search", difficulty |-> "Hard"],
                   [name |-> "Word Ladder II", topic |-> "Graph", difficulty |-> "Hard"] >>]

\* d.get(key, [])
GetOrEmpty(d, key) == IF key \in DOMAIN d THEN d[key] ELSE EmptyList

\* DSAProblemRecommender.recommend(level, topic)
dsa_recommend(level, topic) ==
    LET problems == GetOrEmpty(Problems, Lower(level))
        SameTopic(p) == Lower(p.topic) = Lower(topic)
    IN  IF Truthy(topic) THEN SelectSeq(problems, SameTopic) ELSE problems

---------------------------------------------------------------------------
(* ResumeAnalyzer *)

\* self.ats_keywords['technical_skills']
TechnicalSkills ==
    <<"python", "java", "c++", "javascript", "sql", "react", "aws", "docker", "kubernetes">>

\* ResumeAnalyzer.analyze(resume_text, target_role)
analyze(resume_text, target_role) ==
    LET resume_lower == Lower(resume_text)
        Found(skill) == Contains(resume_lower, skill)
        found_tech   == SelectSeq(TechnicalSkills, Found)
    IN  [ats_score        |-> Min(100, Len(found_tech) * 5 + 20),
         keyword_analysis |-> [technical_skills |-> found_tech],
         suggestions      |-> IF Len(found_tech) < 5
                              THEN <<"Add more technical skills relevant to the role">>
                              ELSE EmptyList,
         strengths        |-> IF found_tech # EmptyList
                              THEN <<"Found " \o ToString(Len(found_tech))
                                     \o " relevant technical skills">>
                              ELSE EmptyList]

---------------------------------------------------------------------------
(* LearningResourceAgent *)

\* self.resources
Resources ==
    [dsa           |-> << [title |-> "LeetCode Patterns", type |-> "Practice", difficulty |-> "Medium"],
                          [title |-> "Neetcode.io", type |-> "Video + Practice", difficulty |-> "All levels"] >>,
     system_design |-> << [title |-> "System Design Primer (GitHub)", type |-> "Article", difficulty |-> "Beginner"],
                          [title |-> "ByteByteGo", type |-> "Video", difficulty |-> "All levels"] >>]

\* LearningResourceAgent.recommend(topic, level)
resource_recommend(topic, level) ==
    LET topic_lower == Replace(Lower(topic), " ", "_")
    IN  GetOrEmpty(Resources, topic_lower)

---------------------------------------------------------------------------
(* StudyPlannerAgent *)

\* a faulty week_plan: the focus is indexed by week, not week - 1
WeekPlan_OffByOne(week, focus_areas) ==
    [week       |-> week,
     focus      |-> focus_areas[(week % Len(focus_areas)) + 1],
     activities |-> <<"Practice coding problems", "Mock interviews", "Resume review">>]

\* week_plan of one turn of the loop
WeekPlan(week, focus_areas) ==
    [week       |-> week,
     focus      |-> focus_areas[((week - 1) % Len(focus_areas)) + 1],
     activities |-> <<"Practice coding problems", "Mock interviews", "Resume review">>]

\* for week in range(1, weeks + 1): plan['weekly_schedule'].append(week_plan)
RECURSIVE WeeklySchedule(_, _, _, _)
WeeklySchedule(week, weeks, focus_areas, schedule) ==
    IF week > weeks THEN schedule
    ELSE WeeklySchedule(week + 1, weeks, focus_areas,
                        Append(schedule, WeekPlan(week, focus_areas)))

\* StudyPlannerAgent.create_plan(weeks, focus_areas, hours_per_day);
\* indexing an empty focus_areas raises ZeroDivisionError in the first turn
create_plan(weeks, focus_areas, hours_per_day) ==
    IF weeks >= 1 /\ Len(focus_areas) = 0
    THEN [raised |-> "ZeroDivisionError"]
    ELSE [duration         |-> ToString(weeks) \o " weeks",
          daily_commitment |-> ToString(hours_per_day) \o " hours/day",
          weekly_schedule  |-> WeeklySchedule(1, weeks, focus_areas, EmptyList),
          milestones       |-> EmptyList]

\* hours_per_day: int = 4
DefaultHoursPerDay == 4

---------------------------------------------------------------------------
(* Inputs the callers give *)

StudentIds == {"student_001", "student_002"}

Profiles ==
    { [name |-> "Sai Ganesh", year |-> "3rd Year", major |-> "CS/AI-ML"],
      [name |-> "Asha", year |-> "1st Year", major |-> "EE"] }

\* the readings the clock takes
Times == {0, 1}

\* activity and details a caller of update_progress gives
Activities == {"practice"}
DetailsGiven == { [problem |-> "Two Sum"] }

\* query texts given while the store is exercised: no, one and four categories
StoreQueries ==
    { "help me study",
      "I need easy DSA problems",
      "Plan to LEARN hard algorithms for my Resume" }

\* query texts given while the routing is exercised
RouteQueries ==
    StoreQueries \cup
    { "",
      "easy",
      "DSA",
      "HARD Algorithm questions",
      "hard or easy problem?",
      "Review my CV",
      "Show my stats",
      "study material please",
      "buy an airplane",
      "my Schedule and resources",
      "I have an interview in 3 weeks. Can you help me prepare?" }

---------------------------------------------------------------------------
(* CoordinatorAgent.process_query, statement by statement *)

\* a call made on a collaborator
Call(fn, args) == [fn |-> fn, args |-> args]

\* response['results'][key] = value
SetResult(response, key, value) ==
    [response EXCEPT !.results = (key :> value) @@ @]

\* the keyword lists of the four routes
DsaWords    == <<"problem", "dsa", "algorithm">>
ResumeWords == <<"resume", "cv", "ats">>
LearnWords  == <<"learn", "resource", "study material">>
PlanWords   == <<"plan", "schedule", "weeks">>

\* a faulty level: 'hard' is looked for before 'easy'
ResolveLevel_HardFirst(query_lower) ==
    IF Contains(query_lower, "hard") THEN "hard"
    ELSE IF Contains(query_lower, "easy") THEN "easy"
    ELSE "medium"

\* level = 'medium'; if 'easy' in query_lower: ... elif 'hard' in query_lower: ...
ResolveLevel(query_lower) ==
    IF Contains(query_lower, "easy") THEN "easy"
    ELSE IF Contains(query_lower, "hard") THEN "hard"
    ELSE "medium"

\* weeks = 4
PlanWeeks == 4

\* the focus areas the router passes to the planner
PlanFocusAreas == <<"DSA", "System Design">>

\* the placeholder text the router passes to the analyzer
SampleResume == "Sample resume text"

\* the summary the router returns
SummaryText == "Here are your personalized recommendations."

\* a faulty order: the plan route runs before the other routes
NextPc_PlanFirst(p) ==
    CASE p = "entry"        -> "route_plan"
      [] p = "route_plan"   -> "route_dsa"
      [] p = "route_dsa"    -> "route_resume"
      [] p = "route_resume" -> "route_learn"
      [] p = "route_learn"  -> "summary"
      [] p = "summary"      -> "record"
      [] p = "record"       -> "done"

\* the statements of process_query in the order the code runs them
NextPc(p) ==
    CASE p = "entry"        -> "route_dsa"
      [] p = "route_dsa"    -> "route_resume"
      [] p = "route_resume" -> "route_learn"
      [] p = "route_learn"  -> "route_plan"
      [] p = "route_plan"   -> "summary"
      [] p = "summary"      -> "record"
      [] p = "record"       -> "done"

\* a call may start when no call is in progress
Ready == pc \in {"idle", "done"}

\* number of activity records in the sessions of ids
RECURSIVE Records(_, _)
Records(store, ids) ==
    IF ids = {} THEN 0
    ELSE LET id == CHOOSE x \in ids : TRUE
         IN  Len(store[id].progress) + Records(store, ids \ {id})

\* the store may still take a record within the bound
Room(student_id) ==
    student_id \in DOMAIN students => Records(students, DOMAIN students) < MaxLog

\* entry: fetch the context, lower-case the query, build the empty response;
\* context keeps the session as fetched (the code never reads it again)
ProcessQuery(student_id, query) ==
    /\ Ready
    /\ Room(student_id)
    /\ frame' = [op          |-> "process_query",
                 student_id  |-> student_id,
                 query       |-> query,
                 context     |-> get_student_context(students, student_id),
                 query_lower |-> Lower(query),
                 response    |-> [student_id |-> student_id,
                                  query      |-> query,
                                  results    |-> EmptyDict,
                                  summary    |-> ""],
                 level       |-> None,
                 details     |-> None]
    /\ calls' = <<Call("get_student_context", <<student_id>>)>>
    /\ ret' = None
    /\ pc' = NextPc("entry")
    /\ UNCHANGED <<students, now>>

\* if any(word in query_lower for word in ['problem', 'dsa', 'algorithm'])
RouteDsa ==
    /\ pc = "route_dsa"
    /\ IF AnyIn(frame.query_lower, DsaWords)
       THEN LET level == ResolveLevel(frame.query_lower)
                problems == dsa_recommend(level, None)
            IN  /\ frame' = [frame EXCEPT
                       !.level = level,
                       !.response = SetResult(@, "dsa_recommendations", problems)]
                /\ calls' = Append(calls, Call("dsa_tool.recommend", <<level, None>>))
       ELSE UNCHANGED <<frame, calls>>
    /\ pc' = NextPc(pc)
    /\ UNCHANGED <<students, now, ret>>

\* if any(word in query_lower for word in ['resume', 'cv', 'ats'])
RouteResume ==
    /\ pc = "route_resume"
    /\ IF AnyIn(frame.query_lower, ResumeWords)
       THEN LET analysis == analyze(SampleResume, "Software Engineer")
            IN  /\ frame' = [frame EXCEPT
                       !.response = SetResult(@, "resume_analysis", analysis)]
                /\ calls' = Append(calls, Call("resume_analyzer.analyze", <<SampleResume>>))
       ELSE UNCHANGED <<frame, calls>>
    /\ pc' = NextPc(pc)
    /\ UNCHANGED <<students, now, ret>>

\* if any(word in query_lower for word in ['learn', 'resource', 'study material'])
RouteLearn ==
    /\ pc = "route_learn"
    /\ IF AnyIn(frame.query_lower, LearnWords)
       THEN LET resources == resource_recommend("dsa", "All levels")
            IN  /\ frame' = [frame EXCEPT
                       !.response = SetResult(@, "learning_resources", resources)]
                /\ calls' = Append(calls, Call("resource_agent.recommend", <<"dsa">>))
       ELSE UNCHANGED <<frame, calls>>
    /\ pc' = NextPc(pc)
    /\ UNCHANGED <<students, now, ret>>

\* if any(word in query_lower for word in ['plan', 'schedule', 'weeks'])
RoutePlan ==
    /\ pc = "route_plan"
    /\ IF AnyIn(frame.query_lower, PlanWords)
       THEN LET plan == create_plan(PlanWeeks, PlanFocusAreas, DefaultHoursPerDay)
            IN  /\ frame' = [frame EXCEPT
                       !.response = SetResult(@, "study_plan", plan)]
                /\ calls' = Append(calls, Call("planner.create_plan",
                                               <<PlanWeeks, PlanFocusAreas>>))
       ELSE UNCHANGED <<frame, calls>>
    /\ pc' = NextPc(pc)
    /\ UNCHANGED <<students, now, ret>>

\* a faulty summary: it is set only when a category matched
Summary_IfMatched ==
    /\ pc = "summary"
    /\ frame' = [frame EXCEPT
           !.response.summary = IF frame.response.results = <<>> THEN "" ELSE SummaryText,
           !.details = [question |-> frame.query, timestamp |-> now]]
    /\ pc' = NextPc(pc)
    /\ UNCHANGED <<students, now, ret, calls>>

\* response['summary'] = ...; then the arguments of update_progress are built
Summary ==
    /\ pc = "summary"
    /\ frame' = [frame EXCEPT
           !.response.summary = SummaryText,
           !.details = [question |-> frame.query, timestamp |-> now]]
    /\ pc' = NextPc(pc)
    /\ UNCHANGED <<students, now, ret, calls>>

\* self.memory.update_progress(student_id, 'query', {...}); return response
Record ==
    /\ pc = "record"
    /\ students' = update_progress(students, frame.student_id, "query",
                                   frame.details, now)
    /\ calls' = Append(calls, Call("update_progress",
                                   <<frame.student_id, "query", frame.details>>))
    /\ ret' = frame.response
    /\ pc' = NextPc(pc)
    /\ UNCHANGED <<now, frame>>

---------------------------------------------------------------------------
(* The callers of the session store, and the clock *)

\* the number of activity records the session of student_id holds
LogLen(store, student_id) ==
    IF student_id \in DOMAIN store THEN Len(store[student_id].progress) ELSE 0

\* memory_bank.add_student(student_id, profile); the frame keeps how many
\* activity records the replaced session held
AddStudent(student_id, profile) ==
    /\ Ready
    /\ students' = add_student(students, student_id, profile, now)
    /\ frame' = [op |-> "add_student", student_id |-> student_id,
                 profile |-> profile,
                 dropped |-> LogLen(students, student_id)]
    /\ ret' = None
    /\ calls' = <<>>
    /\ pc' = "done"
    /\ UNCHANGED now

\* memory_bank.update_progress(student_id, activity, details)
UpdateProgress(student_id, activity, details) ==
    /\ Ready
    /\ Room(student_id)
    /\ students' = update_progress(students, student_id, activity, details, now)
    /\ frame' = [op |-> "update_progress", student_id |-> student_id,
                 activity |-> activity, details |-> details]
    /\ ret' = None
    /\ calls' = <<>>
    /\ pc' = "done"
    /\ UNCHANGED now

\* what get_student_context keeps of the call that returned just before it:
\* an add_student of the same student, or that it was another call
Before(f, student_id) ==
    IF f.op = "add_student" /\ f.student_id = student_id
    THEN f
    ELSE [op |-> "other"]

\* memory_bank.get_student_context(student_id)
GetStudentContext(student_id) ==
    /\ Ready
    /\ ret' = get_student_context(students, student_id)
    /\ frame' = [op |-> "get_student_context", student_id |-> student_id,
                 prev |-> Before(frame, student_id)]
    /\ calls' = <<>>
    /\ pc' = "done"
    /\ UNCHANGED <<students, now>>

\* time passes: datetime.now() reads later
Tick ==
    /\ now + 1 \in Times
    /\ now' = now + 1
    /\ UNCHANGED <<students, pc, frame, ret, calls>>

---------------------------------------------------------------------------
(* The store and the router under every caller *)

\* StudentMemoryBank(): self.students = {}
Init ==
    /\ students = EmptyDict
    /\ now = 0
    /\ pc = "idle"
    /\ frame = [op |-> "none"]
    /\ ret = None
    /\ calls = <<>>

Next ==
    \/ \E id \in StudentIds, p \in Profiles : AddStudent(id, p)
    \/ \E id \in StudentIds, a \in Activities, d \in DetailsGiven : UpdateProgress(id, a, d)
    \/ \E id \in StudentIds : GetStudentContext(id)
    \/ \E id \in StudentIds, q \in StoreQueries : ProcessQuery(id, q)
    \/ RouteDsa
    \/ RouteResume
    \/ RouteLearn
    \/ RoutePlan
    \/ Summary
    \/ Record
    \/ Tick

Spec == Init /\ [][Next]_vars

---------------------------------------------------------------------------
(* The router under a wide set of query texts, from the store as the      *)
(* program's main leaves it: one student registered, one query recorded   *)

DemoId == "student_001"
DemoProfile == [name |-> "Sai Ganesh", year |-> "3rd Year", major |-> "CS/AI-ML"]
DemoQuery == "I have an interview in 3 weeks. Can you help me prepare?"

DemoStore ==
    update_progress(add_student(EmptyDict, DemoId, DemoProfile, 0),
                    DemoId, "query", [question |-> DemoQuery, timestamp |-> 0], 0)

InitRoute ==
    /\ students = DemoStore
    /\ now = 0
    /\ pc = "idle"
    /\ frame = [op |-> "none"]
    /\ ret = None
    /\ calls = <<>>

NextRoute ==
    \/ \E id \in StudentIds, q \in RouteQueries : ProcessQuery(id, q)
    \/ RouteDsa
    \/ RouteResume
    \/ RouteLearn
    \/ RoutePlan
    \/ Summary
    \/ Record
    \/ Tick

SpecRoute == InitRoute /\ [][NextRoute]_vars

---------------------------------------------------------------------------
(* StudyPlannerAgent.create_plan under every argument within the bounds *)

FocusChoices == {"DSA", "System Design", "ML"}

\* the lists of focus areas of at most n entries
FocusLists(n) == UNION { [1..k -> FocusChoices] : k \in 0..n }

InitPlan ==
    /\ students = EmptyDict
    /\ now = 0
    /\ pc = "create_plan"
    /\ \E weeks \in 0..MaxWeeks, focus_areas \in FocusLists(MaxFocus),
          hours_per_day \in {2, DefaultHoursPerDay} :
            frame = [op |-> "create_plan", weeks |-> weeks,
                     focus_areas |-> focus_areas, hours_per_day |-> hours_per_day]
    /\ ret = None
    /\ calls = <<>>

\* planner.create_plan(weeks, focus_areas, hours_per_day)
CreatePlan ==
    /\ pc = "create_plan"
    /\ ret' = create_plan(frame.weeks, frame.focus_areas, frame.hours_per_day)
    /\ pc' = "done"
    /\ UNCHANGED <<students, now, frame, calls>>

NextPlan == CreatePlan

SpecPlan == InitPlan /\ [][NextPlan]_vars

---------------------------------------------------------------------------
(* Claims about the session store and the record a query leaves *)

ResultKeys == {"dsa_recommendations", "resume_analysis", "learning_resources", "study_plan"}

\* s is a prefix of t
IsPrefix(s, t) == Len(s) <= Len(t) /\ SubSeq(t, 1, Len(s)) = s

\* the step is a statement of a process_query call, entry to return
QueryStep == frame'.op = "process_query" /\ pc' # pc

\* C1: one process_query call on a student that has a session leaves the
\* student's progress as it was before the call followed by exactly one record,
\* of activity "query", whose details carry the query text as given; no other
\* statement of the call touches the store.
C1_OneQueryRecord ==
    [][ LET u == frame'.student_id
        IN  (QueryStep /\ u \in DOMAIN students) =>
              IF pc' = "done"
              THEN /\ DOMAIN students' = DOMAIN students
                   /\ LET before == students[u].progress
                          after  == students'[u].progress
                      IN  /\ Len(after) = Len(before) + 1
                          /\ SubSeq(after, 1, Len(before)) = before
                          /\ after[Len(after)].activity = "query"
                          /\ after[Len(after)].details.question = frame'.query
              ELSE students' = students ]_vars

\* C1 witness: a four-category query in mixed case has been recorded behind an
\* earlier record of the same student.
C1_Witness ==
    /\ pc = "done"
    /\ frame.op = "process_query"
    /\ frame.student_id \in DOMAIN students
    /\ Len(students[frame.student_id].progress) >= 2
    /\ DOMAIN ret.results = ResultKeys
    /\ frame.query # frame.query_lower

\* C2 as stated: under every call, add_student included, each session stays
\* and its progress before the step is a prefix of its progress after it.
C2_Original ==
    [][ \A id \in DOMAIN students :
          /\ id \in DOMAIN students'
          /\ IsPrefix(students[id].progress, students'[id].progress) ]_vars

\* C2 amended: under update_progress, get_student_context and process_query
\* each session's progress only grows at its end and its records never
\* change; add_student(id, ...) alone replaces the progress of id, by the
\* empty list, and leaves the progress of every other session as it was.
C2_LogGrowsExceptOnReplace ==
    [][ \A id \in DOMAIN students :
          /\ id \in DOMAIN students'
          /\ \/ IsPrefix(students[id].progress, students'[id].progress)
             \/ /\ frame'.op = "add_student"
                /\ frame'.student_id = id
                /\ students'[id].progress = EmptyList ]_vars

\* C2 witness: a record has been appended behind an earlier one.
C2_Witness ==
    /\ pc = "done"
    /\ frame.op \in {"update_progress", "process_query"}
    /\ frame.student_id \in DOMAIN students
    /\ Len(students[frame.student_id].progress) >= 2

\* C3: get_student_context(id) called right after add_student(id, p) returns
\* a context with profile p, an empty progress and empty preferences,
\* whatever session id had before.
C3_CreateThenGet ==
    (pc = "done" /\ frame.op = "get_student_context" /\ frame.prev.op = "add_student")
        => /\ ret # EmptyDict
           /\ ret.profile = frame.prev.profile
           /\ ret.progress = EmptyList
           /\ ret.preferences = EmptyDict

\* C3 witness: the add_student replaced a session that held records, and the
\* get_student_context after it has returned.
C3_Witness ==
    /\ pc = "done"
    /\ frame.op = "get_student_context"
    /\ frame.prev.op = "add_student"
    /\ frame.prev.dropped > 0
    /\ ret.profile = frame.prev.profile

\* C4: a process_query call on a student without a session fetches the empty
\* context, changes nothing in the store in any of its statements, and returns
\* a result with the student id, the query, the results and the summary.
C4_UnknownStudent ==
    [][ LET u == frame'.student_id
        IN  (QueryStep /\ u \notin DOMAIN students) =>
              /\ students' = students
              /\ frame'.context = EmptyDict
              /\ pc' = "done" =>
                    /\ DOMAIN ret' = {"student_id", "query", "results", "summary"}
                    /\ ret'.student_id = u
                    /\ ret'.query = frame'.query
                    /\ ret'.summary = SummaryText ]_vars

\* C4 witness: a query of a student without a session has returned results
\* while another student's session held a record.
C4_Witness ==
    /\ pc = "done"
    /\ frame.op = "process_query"
    /\ frame.student_id \notin DOMAIN students
    /\ \E id \in DOMAIN students : Len(students[id].progress) > 0
    /\ DOMAIN ret.results # {}

\* C10: process_query and update_progress on a student leave every other
\* session as it was, leave the profile, preferences and created_at of the
\* student's own session as they were, and add or remove no session;
\* get_student_context changes nothing in the store.
C10_Frame ==
    [][ (frame'.op \in {"process_query", "update_progress", "get_student_context"}) =>
          /\ DOMAIN students' = DOMAIN students
          /\ \A id \in DOMAIN students :
                /\ id # frame'.student_id => students'[id] = students[id]
                /\ students'[id].profile = students[id].profile
                /\ students'[id].preferences = students[id].preferences
                /\ students'[id].created_at = students[id].created_at
          /\ frame'.op = "get_student_context" => students' = students ]_vars

\* C10 witness: a query has been recorded for one student, after time passed
\* since the session was made, while another session held records.
C10_Witness ==
    /\ pc = "done"
    /\ frame.op = "process_query"
    /\ frame.student_id \in DOMAIN students
    /\ Len(students[frame.student_id].progress) > 0
    /\ students[frame.student_id].created_at < now
    /\ \E id \in DOMAIN students :
          id # frame.student_id /\ Len(students[id].progress) > 0

---------------------------------------------------------------------------
(* Claims about the routing *)

\* word occurs in text: the stretch of text that starts at some a is word
Occurs(word, text) ==
    \E a \in 1..Len(text) :
        /\ a + Len(word) - 1 <= Len(text)
        /\ SubSeq(text, a, a + Len(word) - 1) = word

\* a process_query call has returned
Answered == pc = "done" /\ frame.op = "process_query"

\* the result keys the lower-cased text calls for, category by category
KeysFor(text) ==
    {k \in ResultKeys :
        \/ k = "dsa_recommendations"
           /\ \E w \in {"problem", "dsa", "algorithm"} : Occurs(w, text)
        \/ k = "resume_analysis"
           /\ \E w \in {"resume", "cv", "ats"} : Occurs(w, text)
        \/ k = "learning_resources"
           /\ \E w \in {"learn", "resource", "study material"} : Occurs(w, text)
        \/ k = "study_plan"
           /\ \E w \in {"plan", "schedule", "weeks"} : Occurs(w, text)}

\* the names of the calls made, in order
CallNames == [i \in 1..Len(calls) |-> calls[i].fn]

\* the calls made on dsa_tool
DsaCalls == SelectSeq(calls, LAMBDA c : c.fn = "dsa_tool.recommend")

\* C5: the keys of the returned results are exactly the categories one of
\* whose keywords occurs in the lower-cased query, each category on its own.
C5_KeysIffKeywords ==
    Answered => DOMAIN ret.results = KeysFor(Lower(ret.query))

\* C5 witness: a query in mixed case matched two of the four categories.
C5_Witness ==
    /\ Answered
    /\ DOMAIN ret.results = {"learning_resources", "study_plan"}
    /\ ret.query # Lower(ret.query)

\* C6: when the problem category matches, dsa_tool.recommend is called once,
\* with no topic and with level "easy" if "easy" occurs in the lower-cased
\* query, else "hard" if "hard" occurs, else "medium"; every problem returned
\* has that difficulty.
C6_Difficulty ==
    (Answered /\ "dsa_recommendations" \in DOMAIN ret.results) =>
        LET text  == Lower(ret.query)
            level == IF Occurs("easy", text) THEN "easy"
                     ELSE IF Occurs("hard", text) THEN "hard"
                     ELSE "medium"
            got   == ret.results["dsa_recommendations"]
        IN  /\ Len(DsaCalls) = 1
            /\ DsaCalls[1].args = <<level, None>>
            /\ got # EmptyList
            /\ \A i \in 1..Len(got) : Lower(got[i].difficulty) = level

\* C6 witness: a query holding both "hard" and "easy", "hard" first, was
\* answered with easy problems.
C6_Witness ==
    /\ Answered
    /\ Occurs("hard", frame.query_lower)
    /\ Occurs("easy", frame.query_lower)
    /\ "dsa_recommendations" \in DOMAIN ret.results
    /\ ret.results["dsa_recommendations"][1].difficulty = "Easy"

\* C7: every result carries the same summary; a query in which no keyword
\* of any category occurs gets empty results, and no responder is called.
C7_SummaryAndNoMatch ==
    Answered =>
        /\ ret.summary = "Here are your personalized recommendations."
        /\ KeysFor(Lower(ret.query)) = {} =>
              /\ ret.results = EmptyDict
              /\ CallNames = <<"get_student_context", "update_progress">>

\* C7 witness: "help me study" was answered with empty results.
C7_Witness ==
    /\ Answered
    /\ ret.query = "help me study"
    /\ ret.results = EmptyDict
    /\ ret.summary = "Here are your personalized recommendations."

\* the calls a process_query on the lower-cased text makes, in order
CallsFor(text) ==
    LET keys == KeysFor(text)
        If(k, fn) == IF k \in keys THEN <<fn>> ELSE <<>>
    IN  <<"get_student_context">>
        \o If("dsa_recommendations", "dsa_tool.recommend")
        \o If("resume_analysis", "resume_analyzer.analyze")
        \o If("learning_resources", "resource_agent.recommend")
        \o If("study_plan", "planner.create_plan")
        \o <<"update_progress">>

\* C9: at every point of a process_query call the calls made so far are the
\* first calls of: the context fetch, the matched responders in the order
\* problem, document, resource, plan, then update_progress; when the call has
\* returned all of them have been made; and as long as update_progress has
\* not been called the student's session is still as it was fetched.
C9_FixedOrder ==
    (frame.op = "process_query") =>
        LET all == CallsFor(frame.query_lower)
        IN  /\ calls # <<>>
            /\ IsPrefix(CallNames, all)
            /\ pc = "done" <=> CallNames = all
            /\ pc # "done" =>
                  get_student_context(students, frame.student_id) = frame.context

\* C9 witness: a query matching all four categories has returned, the store
\* holding its record.
C9_Witness ==
    /\ Answered
    /\ CallNames = <<"get_student_context", "dsa_tool.recommend",
                     "resume_analyzer.analyze", "resource_agent.recommend",
                     "planner.create_plan", "update_progress">>
    /\ frame.student_id \in DOMAIN students
    /\ Len(students[frame.student_id].progress) >= 2

---------------------------------------------------------------------------
(* Claims about the study plan *)

\* create_plan has returned for a positive weeks and a non-empty focus_areas
Planned ==
    /\ pc = "done"
    /\ frame.op = "create_plan"
    /\ frame.weeks >= 1
    /\ Len(frame.focus_areas) >= 1

\* C8: the weekly schedule has `weeks` entries numbered 1..weeks in order;
\* the first entries take the focus areas in their order and every later
\* entry repeats the focus of the entry one cycle before it; 4 weeks of
\* DSA and System Design give DSA, System Design, DSA, System Design.
C8_RoundRobin ==
    Planned =>
        LET n        == Len(frame.focus_areas)
            schedule == ret.weekly_schedule
        IN  /\ Len(schedule) = frame.weeks
            /\ \A w \in 1..frame.weeks :
                  /\ schedule[w].week = w
                  /\ schedule[w].focus = IF w <= n THEN frame.focus_areas[w]
                                         ELSE schedule[w - n].focus
            /\ (frame.weeks = 4 /\ frame.focus_areas = <<"DSA", "System Design">>) =>
                  [w \in 1..4 |-> schedule[w].focus]
                      = <<"DSA", "System Design", "DSA", "System Design">>

\* C8 witness: the plan of 4 weeks over DSA and System Design has been made.
C8_Witness ==
    /\ Planned
    /\ frame.weeks = 4
    /\ frame.focus_areas = <<"DSA", "System Design">>
    /\ Len(ret.weekly_schedule) = 4

=============================================================================
